---- MODULE Spec2Model ----
(***************************************************************************)
(* Session / authentication controller of next-core-template:              *)
(*   - TokenStore   (lib/auth.ts: localStorage access_token/refresh_token) *)
(*   - TokenCodec   (lib/auth.ts: decodeJWT, isTokenExpired, isTokenValid) *)
(*   - AuthState    (@redux/features/auth/auth.slice.ts reducers)          *)
(*   - RequestGateway (lib/api/base-query.ts axiosBaseQuery and            *)
(*                     lib/api/auth-helpers.ts handle401Error & friends)   *)
(*   - the RTK Query endpoints login / refreshToken / getUserProfile       *)
(* An async function is modelled as one action per run-to-completion       *)
(* segment between two awaits; the transport (axios) is an opaque server   *)
(* whose answer is chosen nondeterministically when the await resumes.     *)
(***************************************************************************)
EXTENDS Integers, Sequences, FiniteSets, TLC

VARIABLES
    access,   \* localStorage['access_token']  (NoToken = getItem returns null)
    refresh,  \* localStorage['refresh_token']
    auth,     \* redux state.auth : [user, isAuthenticated, loading, error]
    now,      \* Date.now() in milliseconds
    calls,    \* the execute() invocations (axiosBaseQuery calls), by slot
    slots,    \* the slots in which the application's execute() calls may run
    rs,       \* restoreUserSession / initializeSession: position, locals, history
    restoring,\* SessionInitializer's isRestoringSession
    probe     \* the last call of a reducer, codec or TokenStore function made
              \* on its own: the function, its arguments, what it returned

vars == <<access, refresh, auth, now, calls, slots, rs, restoring, probe>>

-----------------------------------------------------------------------------
(* Bounds *)

\* number of half-second clock advances explored
MaxTicks == 4

\* JWT exp is in seconds, Date.now() in milliseconds
MsPerSec == 1000

TickMs == MsPerSec \div 2

CallIds == {1, 2}

-----------------------------------------------------------------------------
(* Characters and strings: a string is a sequence of one-character strings *)

UpperChars == <<"A","B","C","D","E","F","G","H","I","J","K","L","M",
                "N","O","P","Q","R","S","T","U","V","W","X","Y","Z">>
LowerChars == <<"a","b","c","d","e","f","g","h","i","j","k","l","m",
                "n","o","p","q","r","s","t","u","v","w","x","y","z">>

ToLowerChar(ch) ==
    IF \E i \in 1..Len(UpperChars) : UpperChars[i] = ch
    THEN LowerChars[CHOOSE i \in 1..Len(UpperChars) : UpperChars[i] = ch]
    ELSE ch

\* String.prototype.toLowerCase
ToLowerCase(s) == [i \in 1..Len(s) |-> ToLowerChar(s[i])]

\* String.prototype.includes
Includes(s, sub) ==
    \E i \in 0..(Len(s) - Len(sub)) : SubSeq(s, i + 1, i + Len(sub)) = sub

S_jwt_expired       == <<"j","w","t"," ","e","x","p","i","r","e","d">>
S_token_expired     == <<"t","o","k","e","n"," ","e","x","p","i","r","e","d">>
S_expired           == <<"e","x","p","i","r","e","d">>
S_invalid_signature == <<"i","n","v","a","l","i","d"," ","s","i","g","n","a","t","u","r","e">>
S_invalid_token     == <<"i","n","v","a","l","i","d"," ","t","o","k","e","n">>
S_malformed         == <<"m","a","l","f","o","r","m","e","d">>
S_invalid           == <<"i","n","v","a","l","i","d">>

\* the 401 bodies' message texts the server is let to answer with
M_JwtExpired       == S_jwt_expired
M_TokenExpiredCaps == <<"T","O","K","E","N"," ","E","X","P","I","R","E","D">>
M_InvalidExpired   == <<"i","n","v","a","l","i","d",":"," ","e","x","p","i","r","e","d">>
M_InvalidSignature == <<"I","n","v","a","l","i","d"," ","s","i","g","n","a","t","u","r","e">>
M_JwtMalformed     == <<"j","w","t"," ","m","a","l","f","o","r","m","e","d">>
M_Unauthorized     == <<"U","n","a","u","t","h","o","r","i","z","e","d">>
M_Expires          == <<"e","x","p","i","r","e","s">>
M_Empty            == <<>>

MsgTexts == {M_JwtExpired, M_TokenExpiredCaps, M_InvalidExpired, M_InvalidSignature,
             M_JwtMalformed, M_Unauthorized, M_Expires, M_Empty}

\* the `message` field of an error body: a string, missing, or not a string
StrMsg(text) == [has |-> "str", text |-> text]
NoMsg        == [has |-> "none", text |-> <<>>]
NonStrMsg    == [has |-> "nonstr", text |-> <<>>]

Messages == {StrMsg(t) : t \in MsgTexts} \cup {NoMsg, NonStrMsg}

-----------------------------------------------------------------------------
(* Tokens: a token string is the sequence of its '.'-separated segments;   *)
(* a segment is described by what atob + JSON.parse make of it.            *)

NoExp  == 0 - 1      \* the claims object has no exp
StrExp == 0 - 2      \* exp is a non-numeric string

ClaimsSeg(exp) == [k |-> "obj", exp |-> exp]         \* base64url of a JSON object
HeaderSeg      == [k |-> "obj", exp |-> NoExp]
SigSeg         == [k |-> "notjson", exp |-> NoExp]   \* base64url, not JSON
GarbageSeg     == [k |-> "notb64", exp |-> NoExp]    \* atob throws
EmptySeg       == [k |-> "empty", exp |-> NoExp]     \* ''
WordSeg        == [k |-> "word", exp |-> NoExp]      \* the text 'undefined'
ScalarSeg      == [k |-> "scalar", exp |-> NoExp]    \* base64url of JSON that is no
                                                     \* object: a number, a string

NoToken   == <<>>                      \* null / undefined : nothing stored
EmptyTok  == <<EmptySeg>>              \* the string ''
UndefTok  == <<WordSeg>>               \* the string 'undefined'
JWT(exp)  == <<HeaderSeg, ClaimsSeg(exp), SigSeg>>
T1        == JWT(1)
T2        == JWT(2)
T3        == JWT(3)
TBad      == <<HeaderSeg, GarbageSeg, SigSeg>>   \* three parts, undecodable
TTwo      == <<HeaderSeg, ClaimsSeg(3)>>         \* two parts, decodable

\* JS truthiness of string | null | undefined
Truthy(t) == t # NoToken /\ t # EmptyTok

-----------------------------------------------------------------------------
(* TokenCodec (lib/auth.ts) *)

NullPayload == [ok |-> FALSE, exp |-> NoExp]

\* JSON.parse gave a value that is not an object: returned as it is; it is
\* truthy and has no exp
ScalarPayload == [ok |-> TRUE, exp |-> NoExp, claims |-> FALSE]

\* faulty variant: the try/catch left out, the exception reaches the caller
DecodeJWT_NoCatch(token) ==
    IF Len(token) < 2 THEN [ok |-> FALSE, exp |-> NoExp, threw |-> "TypeError"]
    ELSE IF token[2].k = "obj" THEN [ok |-> TRUE, exp |-> token[2].exp]
    ELSE IF token[2].k = "scalar" THEN ScalarPayload
    ELSE [ok |-> FALSE, exp |-> NoExp, threw |-> "SyntaxError"]

\* faulty variant: anything but three segments refused
DecodeJWT_ThreePartsOnly(token) ==
    IF Len(token) # 3 THEN NullPayload
    ELSE IF token[2].k = "obj" THEN [ok |-> TRUE, exp |-> token[2].exp]
    ELSE IF token[2].k = "scalar" THEN ScalarPayload
    ELSE NullPayload

\* decodeJWT: token.split('.')[1], atob, JSON.parse; any throw gives null.
\* With fewer than two segments split('.')[1] is undefined and .replace throws.
DecodeJWT(token) ==
    IF Len(token) < 2 THEN NullPayload
    ELSE IF token[2].k = "obj" THEN [ok |-> TRUE, exp |-> token[2].exp]
    ELSE IF token[2].k = "scalar" THEN ScalarPayload
    ELSE NullPayload

\* isTokenExpired: !payload || !payload.exp -> true; else exp * 1000 < Date.now().
\* A non-numeric exp makes the product NaN, and NaN < x is false.
IsTokenExpired(token, time) ==
    LET payload == DecodeJWT(token) IN
    IF ~payload.ok \/ payload.exp = NoExp \/ payload.exp = 0 THEN TRUE
    ELSE IF payload.exp = StrExp THEN FALSE
    ELSE payload.exp * MsPerSec < time

\* faulty variant: the count of segments not looked at
IsTokenValid_NoPartsCheck(token, time) ==
    IF ~DecodeJWT(token).ok THEN FALSE
    ELSE ~IsTokenExpired(token, time)

\* isTokenValid: three parts, decodable, not expired
IsTokenValid(token, time) ==
    IF Len(token) # 3 THEN FALSE
    ELSE IF ~DecodeJWT(token).ok THEN FALSE
    ELSE ~IsTokenExpired(token, time)

-----------------------------------------------------------------------------
(* TokenStore (lib/auth.ts over localStorage) *)

\* localStorage.setItem stringifies its value: undefined is stored as 'undefined'
\* faulty variant: an empty string stored as nothing
SetItem_EmptyAsAbsent(value) ==
    IF value = NoToken THEN UndefTok
    ELSE IF value = EmptyTok THEN NoToken
    ELSE value

SetItem(value) == IF value = NoToken THEN UndefTok ELSE value

-----------------------------------------------------------------------------
(* AuthState (auth.slice.ts) *)

NoUser  == "null"
NoError == "null"
Users   == {"u1", "u2"}

\* the source text opens with a padlock emoji, written (lock) here
SessionExpiryMsg == "(lock) Your session has expired. Please log in again to continue."
SessionExpiredArg == "Session expired. Please login again."
AuthFailedMsg    == "Authentication failed. Please login again."
AuthErrorMsg     == "Authentication error. Please login again."
LoginFailedMsg   == "Login failed. Please check your credentials."

\* faulty variant: isAuthenticated left as it was
setUser_KeepFlag(state, user) ==
    [state EXCEPT !.user = user, !.loading = FALSE, !.error = NoError]

\* faulty variant: a request in progress survives setUser
setUser_KeepLoading(state, user) ==
    [state EXCEPT !.user = user, !.isAuthenticated = TRUE, !.error = NoError]

\* faulty variant: a logout that reports itself, once
logout_NotifiesOnce(state) ==
    [state EXCEPT !.user = NoUser, !.isAuthenticated = FALSE, !.loading = FALSE,
                  !.error = IF state.isAuthenticated THEN SessionExpiredArg ELSE NoError]

\* faulty variant: a failure drops the displayed user
authFailed_ClearsUser(state, message) ==
    [state EXCEPT !.user = NoUser, !.isAuthenticated = FALSE,
                  !.loading = FALSE, !.error = message]

initialState ==
    [user |-> NoUser, isAuthenticated |-> FALSE, loading |-> FALSE, error |-> NoError]

setUser(state, user) ==
    [state EXCEPT !.user = user, !.isAuthenticated = TRUE,
                  !.loading = FALSE, !.error = NoError]

logout(state) ==
    [state EXCEPT !.user = NoUser, !.isAuthenticated = FALSE,
                  !.loading = FALSE, !.error = NoError]

authLoading(state) == [state EXCEPT !.loading = TRUE, !.error = NoError]

authFailed(state, message) == [state EXCEPT !.loading = FALSE, !.error = message]

-----------------------------------------------------------------------------
(* 401 triage (auth-helpers.ts) *)

isTokenExpiredError(errorMessage) ==
    LET errorText == ToLowerCase(errorMessage) IN
    \/ Includes(errorText, S_jwt_expired)
    \/ Includes(errorText, S_token_expired)
    \/ Includes(errorText, S_expired)

isTokenInvalidError(errorMessage) ==
    LET errorText == ToLowerCase(errorMessage) IN
    \/ Includes(errorText, S_invalid_signature)
    \/ Includes(errorText, S_invalid_token)
    \/ Includes(errorText, S_malformed)
    \/ Includes(errorText, S_invalid)

\* faulty variant: the invalid test made before the expired test
Triage_InvalidFirst(errorMessage) ==
    IF isTokenInvalidError(errorMessage) THEN "INVALID"
    ELSE IF isTokenExpiredError(errorMessage) THEN "EXPIRED"
    ELSE "UNKNOWN"

\* the branch handle401Error takes for a string message
Triage(errorMessage) ==
    IF isTokenExpiredError(errorMessage) THEN "EXPIRED"
    ELSE IF isTokenInvalidError(errorMessage) THEN "INVALID"
    ELSE "UNKNOWN"

\* faulty variant: the isSessionExpiry flag ignored
ClearAuthMessage_IgnoreFlag(message, isSessionExpiry) == message

\* the message clearAuthAndLogout hands to authFailed
ClearAuthMessage(message, isSessionExpiry) ==
    IF isSessionExpiry THEN SessionExpiryMsg ELSE message

-----------------------------------------------------------------------------
(* AuthErrorDisplay: the marker test on AuthState.error                    *)

\* the padlock emoji, one element of the text
Padlock == "(lock)"

S_session_has_expired ==
    <<"s", "e", "s", "s", "i", "o", "n", " ", "h", "a", "s", " ", "e",
          "x", "p", "i", "r", "e", "d">>

\* the characters of each message the code hands to authFailed
Chars(message) ==
    CASE message = SessionExpiryMsg ->
        <<Padlock, " ", "Y", "o", "u", "r", " ", "s", "e", "s", "s", "i",
          "o", "n", " ", "h", "a", "s", " ", "e", "x", "p", "i", "r", "e",
          "d", ".", " ", "P", "l", "e", "a", "s", "e", " ", "l", "o", "g",
          " ", "i", "n", " ", "a", "g", "a", "i", "n", " ", "t", "o", " ",
          "c", "o", "n", "t", "i", "n", "u", "e", ".">>
      [] message = SessionExpiredArg ->
        <<"S", "e", "s", "s", "i", "o", "n", " ", "e", "x", "p", "i", "r",
          "e", "d", ".", " ", "P", "l", "e", "a", "s", "e", " ", "l", "o",
          "g", "i", "n", " ", "a", "g", "a", "i", "n", ".">>
      [] message = AuthFailedMsg ->
        <<"A", "u", "t", "h", "e", "n", "t", "i", "c", "a", "t", "i", "o",
          "n", " ", "f", "a", "i", "l", "e", "d", ".", " ", "P", "l", "e",
          "a", "s", "e", " ", "l", "o", "g", "i", "n", " ", "a", "g", "a",
          "i", "n", ".">>
      [] message = AuthErrorMsg ->
        <<"A", "u", "t", "h", "e", "n", "t", "i", "c", "a", "t", "i", "o",
          "n", " ", "e", "r", "r", "o", "r", ".", " ", "P", "l", "e", "a",
          "s", "e", " ", "l", "o", "g", "i", "n", " ", "a", "g", "a", "i",
          "n", ".">>
      [] message = LoginFailedMsg ->
        <<"L", "o", "g", "i", "n", " ", "f", "a", "i", "l", "e", "d", ".",
          " ", "P", "l", "e", "a", "s", "e", " ", "c", "h", "e", "c", "k",
          " ", "y", "o", "u", "r", " ", "c", "r", "e", "d", "e", "n", "t",
          "i", "a", "l", "s", ".">>
      [] OTHER -> <<>>

\* authError.includes('session has expired') || authError.includes(padlock);
\* the component shows nothing when the error is null
IsSessionExpiry(authError) ==
    /\ authError # NoError
    /\ \/ Includes(Chars(authError), S_session_has_expired)
       \/ Includes(Chars(authError), <<Padlock>>)

-----------------------------------------------------------------------------
(* Request headers (request-helpers.ts) *)

Absent       == [v |-> "absent"]
Bearer(tok)  == [v |-> "Bearer", token |-> tok]
NoHeaders    == [ContentType |-> Absent, Authorization |-> Absent]
CallerAuth   == [ContentType |-> Absent, Authorization |-> [v |-> "caller-supplied"]]

\* object spread {...a, ...b}: b's keys win
Spread(a, b) == [h \in DOMAIN a |-> IF b[h] # Absent THEN b[h] ELSE a[h]]

getContentTypeHeaders(method, data) ==
    IF method = "get" \/ data = "none" THEN NoHeaders
    ELSE IF data = "formdata"
         THEN [NoHeaders EXCEPT !.ContentType = [v |-> "multipart/form-data"]]
    ELSE IF data = "string"
         THEN [NoHeaders EXCEPT !.ContentType = [v |-> "text/plain"]]
    ELSE [NoHeaders EXCEPT !.ContentType = [v |-> "application/json"]]

getAuthHeaders(token) ==
    IF Truthy(token) THEN [NoHeaders EXCEPT !.Authorization = Bearer(token)]
    ELSE NoHeaders

\* faulty variant: the caller's headers spread last
buildRequestHeaders_CallerLast(method, data, token, customHeaders) ==
    Spread(Spread(getContentTypeHeaders(method, data), getAuthHeaders(token)),
           customHeaders)

buildRequestHeaders(method, data, token, customHeaders) ==
    Spread(Spread(getContentTypeHeaders(method, data), customHeaders),
           getAuthHeaders(token))

-----------------------------------------------------------------------------
(* Endpoints (api.slice.ts) *)

RefreshUrl == "auth/refresh-token"

Endpoints == {"login", "refreshToken", "getUserProfile"}

Url(ep) ==
    CASE ep = "login"          -> "auth/login"
      [] ep = "refreshToken"   -> RefreshUrl
      [] ep = "getUserProfile" -> "users/profile"
      [] OTHER                 -> "none"

Method(ep) == IF ep = "getUserProfile" THEN "GET" ELSE "POST"

Data(ep) == IF ep = "getUserProfile" THEN "none" ELSE "object"

-----------------------------------------------------------------------------
(* Transport (axios): what one dispatched request can come back with *)

\* err.response?.status of an error that carries no response
StatusUndefined == 0

NoResp == [kind |-> "none"]

Env(statusCode, data) == [statusCode |-> statusCode, data |-> data]
NoData                == [t |-> "none"]
TokenData(tok, rtok)  == [t |-> "tokens", token |-> tok, refreshToken |-> rtok]
UserData(user)        == [t |-> "user", user |-> user]
LoginData(user, tok, rtok) ==
    [t |-> "login", user |-> user, token |-> tok, refreshToken |-> rtok]

Ok(body) == [kind |-> "ok", body |-> body]

Body(message) == [present |-> TRUE, message |-> message]
NoBody        == [present |-> FALSE, message |-> NoMsg]

\* the server answered with an error status
Err(status, body) == [kind |-> "err", status |-> status, body |-> body]
\* no response reached the client (network failure, timeout)
Lost(message)     == [kind |-> "noresp", message |-> message]

ErrorResponses ==
    {Err(401, Body(m)) : m \in Messages}
      \cup {Err(401, NoBody), Err(400, Body(StrMsg(M_JwtExpired))), Err(500, NoBody),
            Lost("Network Error"), Lost("timeout of 600000ms exceeded")}

RefreshOkResponses ==
    {Ok(Env(200, TokenData(T2, T3))), Ok(Env(200, TokenData(T3, T2))),
     Ok(Env(200, TokenData(NoToken, NoToken))), Ok(Env(200, NoData)),
     Ok(Env(201, TokenData(T2, T3)))}

RefreshErrResponses ==
    {Err(400, Body(StrMsg(M_Unauthorized))), Err(401, Body(StrMsg(M_JwtExpired))),
     Lost("Network Error")}

OkResponses(ep) ==
    CASE ep = "login" ->
            {Ok(Env(200, LoginData(u, T2, T3))) : u \in Users \cup {NoUser}}
              \cup {Ok(Env(200, NoData))}
      [] ep = "refreshToken" -> RefreshOkResponses
      [] OTHER -> {Ok(Env(200, UserData(u))) : u \in Users} \cup {Ok(Env(200, NoData))}

Responses(ep) == OkResponses(ep) \cup ErrorResponses

\* what the retried request can come back with: the successes, and one error of
\* each kind the catch around the retry could tell apart if it looked
RetryResponses(ep) ==
    OkResponses(ep)
      \cup {Err(401, Body(StrMsg(M_JwtExpired))), Err(401, Body(StrMsg(M_InvalidSignature))),
            Err(401, Body(NonStrMsg)), Err(500, NoBody), Lost("Network Error")}

\* err.response?.status
ErrStatus(err) == IF err.kind = "err" THEN err.status ELSE StatusUndefined

\* err.response?.data || err.message
ErrData(err) ==
    IF err.kind = "err" /\ err.body.present THEN err.body
    ELSE IF err.kind = "err"
         THEN [axiosMessage |-> "Request failed with status code", status |-> err.status]
    ELSE [axiosMessage |-> err.message, status |-> StatusUndefined]

\* errorData?.message || ''   (errorData = err.response?.data)
ErrorMessage(err) ==
    IF err.kind = "err" /\ err.body.present /\ err.body.message.has # "none"
    THEN err.body.message
    ELSE StrMsg(M_Empty)

NoResult          == [kind |-> "none"]
DataResult(body)  == [kind |-> "data", data |-> body]
ErrorResult(err)  == [kind |-> "error", status |-> ErrStatus(err), data |-> ErrData(err)]

\* a field of a response payload; undefined when the payload lacks it
Field(data, f) == IF f \in DOMAIN data THEN data[f] ELSE NoToken

-----------------------------------------------------------------------------
(* One execute() call *)

NoRefreshResult == [success |-> FALSE, newToken |-> NoToken, error |-> "none"]

IdleCall ==
    [pc           |-> "idle",
     ep           |-> "none",
     custom       |-> NoHeaders,      \* the caller's headers
     reqHeaders   |-> NoHeaders,      \* headers of the original request
     origResp     |-> NoResp,         \* what the original request came back with
     triage       |-> "none",         \* the branch handle401Error took
     rr           |-> NoRefreshResult,\* what attemptTokenRefresh returned
     sentRefresh  |-> NoToken,        \* the refreshToken posted to auth/refresh-token
     refreshResp  |-> NoResp,         \* what the refresh request came back with
     retryHeaders |-> NoHeaders,      \* headers of the retried request
     retryResp    |-> NoResp,         \* what the retried request came back with
     logoutMsg    |-> "none",         \* clearAuthAndLogout's message argument
     logoutExpiry |-> FALSE,          \* clearAuthAndLogout's isSessionExpiry argument
     nOrig        |-> 0,              \* dispatches of the original request
     nRefresh     |-> 0,              \* dispatches of the refresh request
     nRetry       |-> 0,              \* dispatches of the retry
     result       |-> NoResult]

\* restoreUserSession and the initializer that calls it
IdleRestore ==
    [pc           |-> "idle",
     via          |-> "none",          \* "initializer" or a direct call
     should       |-> FALSE,           \* what shouldRestoreSession() returned
     accessToken  |-> NoToken,         \* const accessToken = getAccessToken()
     refreshToken |-> NoToken,         \* const refreshToken = getRefreshToken()
     plan         |-> "none",          \* the branch taken after reading the tokens
     fetches      |-> <<>>,            \* what each fetchUserProfile() came back with
     nProfile     |-> 0,               \* calls of fetchUserProfile
     nAttempt     |-> 0,               \* calls of attemptTokenRefresh
     nRefresh     |-> 0,               \* refresh requests dispatched
     sentRefresh  |-> NoToken,
     refreshResp  |-> NoResp,
     rr           |-> NoRefreshResult,
     path         |-> "none"]          \* the exit taken

InitTokens == {NoToken, T1, T2, TBad, TTwo}

NoProbe == [op |-> "none"]

TypeOK ==
    /\ slots \subseteq CallIds
    /\ now \in {i * TickMs : i \in 0..MaxTicks + 1}
    /\ auth.isAuthenticated \in BOOLEAN
    /\ auth.loading \in BOOLEAN
    /\ \A c \in CallIds :
         calls[c].pc \in {"idle", "await_orig", "await_refresh", "refresh_returned",
                          "logout_import", "await_retry", "returned", "threw"}
    /\ restoring \in BOOLEAN
    /\ rs.pc \in {"idle", "checked", "profile1", "await_refresh", "profile2", "done"}
    /\ rs.path \in {"none", "notokens", "profile1", "profile2", "fallback"}

Init ==
    /\ access \in InitTokens
    /\ refresh \in InitTokens
    /\ auth = initialState
    /\ now = 0
    /\ calls = [c \in CallIds |-> IdleCall]
    /\ slots = {1}
    /\ rs = IdleRestore
    /\ restoring = TRUE
    /\ probe = NoProbe

-----------------------------------------------------------------------------
(* attemptTokenRefresh (auth-helpers.ts) *)

\* faulty variant: the isTokenValid pre-check left out
AttemptRefreshEntry_NoValidityCheck(refreshToken, time) ==
    IF ~Truthy(refreshToken) THEN "No refresh token available" ELSE "dispatch"

\* faulty variant: a refresh request in flight is shared, no second one is sent
AttemptRefreshEntry_SharedInFlight(refreshToken, time) ==
    IF ~Truthy(refreshToken) THEN "No refresh token available"
    ELSE IF ~IsTokenValid(refreshToken, time) THEN "Refresh token is invalid or expired"
    ELSE IF \E d \in CallIds : calls[d].pc = "await_refresh" THEN "Refresh in flight"
    ELSE "dispatch"

\* the early exits: why no request is sent, or "dispatch"
AttemptRefreshEntry(refreshToken, time) ==
    IF ~Truthy(refreshToken) THEN "No refresh token available"
    ELSE IF ~IsTokenValid(refreshToken, time) THEN "Refresh token is invalid or expired"
    ELSE "dispatch"

RefreshFailed(why) == [success |-> FALSE, newToken |-> NoToken, error |-> why]

\* refreshResult.data?.statusCode === 200 && refreshResult.data?.data
IsRefreshSuccess(resp) ==
    resp.kind = "ok" /\ resp.body.statusCode = 200 /\ resp.body.data # NoData

\* faulty variant: success reported for any answer that carries data
RefreshOutcome_IgnoresStatus(resp) ==
    IF resp.kind = "ok" /\ resp.body.data # NoData
    THEN [success |-> TRUE, newToken |-> Field(resp.body.data, "token"), error |-> "none"]
    ELSE IF resp.kind = "ok" THEN RefreshFailed("Invalid refresh response")
    ELSE RefreshFailed("Refresh request failed")

\* what attemptTokenRefresh returns once the refresh request came back
RefreshOutcome(resp) ==
    IF IsRefreshSuccess(resp)
    THEN [success |-> TRUE, newToken |-> Field(resp.body.data, "token"), error |-> "none"]
    ELSE IF resp.kind = "ok" THEN RefreshFailed("Invalid refresh response")
    ELSE RefreshFailed("Refresh request failed")

\* faulty variant: setRefreshToken forgotten
RefreshStore_AccessOnly(resp, cur) ==
    IF resp.kind = "ok" /\ resp.body.statusCode = 200 /\ resp.body.data # NoData
    THEN [access |-> SetItem(Field(resp.body.data, "token")), refresh |-> cur.refresh]
    ELSE cur

\* faulty variant: the tokens written before the statusCode is looked at
RefreshStore_WriteBeforeCheck(resp, cur) ==
    IF resp.kind = "ok" /\ resp.body.data # NoData
    THEN [access  |-> SetItem(Field(resp.body.data, "token")),
          refresh |-> SetItem(Field(resp.body.data, "refreshToken"))]
    ELSE cur

\* the TokenStore after attemptTokenRefresh handled the response
RefreshStore(resp, cur) ==
    IF IsRefreshSuccess(resp)
    THEN [access  |-> SetItem(Field(resp.body.data, "token")),
          refresh |-> SetItem(Field(resp.body.data, "refreshToken"))]
    ELSE cur

-----------------------------------------------------------------------------
(* axiosBaseQuery (base-query.ts) with handle401Error / clearAuthAndLogout *)

\* faulty variant: every 4xx handled as an authentication error
ShouldHandle401_AnyClientError(err, url) ==
    ErrStatus(err) \in {400, 401} /\ url # RefreshUrl

\* faulty variant: the refresh-endpoint guard left out
ShouldHandle401_NoUrlGuard(err, url) == ErrStatus(err) = 401

\* err.response?.status === 401 && url !== 'auth/refresh-token'
ShouldHandle401(err, url) == ErrStatus(err) = 401 /\ url # RefreshUrl

\* authResult.shouldRetry && authResult.newToken
ShouldRetry(authResult) == authResult.success /\ Truthy(authResult.newToken)

\* faulty variant: the retry's own error returned
RetryFailureResult_OfRetry(origErr, retryErr) == ErrorResult(retryErr)

\* the error returned when the retried request fails
RetryFailureResult(origErr, retryErr) == ErrorResult(origErr)

\* faulty variant: removeRefreshToken() forgotten
ClearedStore_KeepRefresh == [access |-> NoToken, refresh |-> refresh]

\* removeAccessToken(); removeRefreshToken()
ClearedStore == [access |-> NoToken, refresh |-> NoToken]

\* execute() returns `result`
Return(c, call, result) ==
    calls' = [calls EXCEPT ![c] = [call EXCEPT !.pc = "returned", !.result = result]]

\* clearAuthAndLogout up to its first await: the tokens are removed
ClearAuthBegin(c, call, message, isSessionExpiry) ==
    /\ access' = ClearedStore.access
    /\ refresh' = ClearedStore.refresh
    /\ calls' = [calls EXCEPT ![c] = [call EXCEPT !.pc = "logout_import",
                                                  !.logoutMsg = message,
                                                  !.logoutExpiry = isSessionExpiry]]
    /\ UNCHANGED auth

\* handle401Error up to its first await
Handle401(c, call) ==
    LET errorMessage == ErrorMessage(call.origResp) IN
    IF errorMessage.has = "nonstr"
    THEN \* errorMessage.toLowerCase is not a function: the TypeError leaves execute()
         /\ calls' = [calls EXCEPT ![c] = [call EXCEPT !.pc = "threw"]]
         /\ UNCHANGED <<access, refresh, auth>>
    ELSE LET branch == Triage(errorMessage.text)
             entry  == AttemptRefreshEntry(refresh, now)
             tri    == [call EXCEPT !.triage = branch]
         IN  IF branch = "EXPIRED"
             THEN /\ calls' = [calls EXCEPT ![c] =
                        IF entry = "dispatch"
                        THEN [tri EXCEPT !.pc = "await_refresh",
                                         !.sentRefresh = refresh,
                                         !.nRefresh = @ + 1]
                        ELSE [tri EXCEPT !.pc = "refresh_returned",
                                         !.rr = RefreshFailed(entry)]]
                  /\ UNCHANGED <<access, refresh, auth>>
             ELSE IF branch = "INVALID"
             THEN ClearAuthBegin(c, tri, AuthFailedMsg, FALSE)
             ELSE ClearAuthBegin(c, tri, AuthErrorMsg, FALSE)

\* execute(request): read the token, build the headers, dispatch
Dispatch(c) ==
    /\ c \in slots
    /\ calls[c].pc = "idle"
    /\ \E ep \in Endpoints, custom \in {NoHeaders, CallerAuth} :
         calls' = [calls EXCEPT ![c] =
                     [IdleCall EXCEPT !.pc = "await_orig",
                                      !.ep = ep,
                                      !.custom = custom,
                                      !.reqHeaders =
                                          buildRequestHeaders(Method(ep), Data(ep),
                                                              access, custom),
                                      !.nOrig = 1]]
    /\ UNCHANGED <<access, refresh, auth, now, slots, rs, restoring, probe>>

\* a component issues a request: the children are rendered once the
\* initializer is through, and no restoration is running then
Start(c) ==
    /\ rs.pc = "idle"
    /\ ~restoring
    /\ Dispatch(c)

\* the original request comes back
RecvOrig(c) ==
    /\ calls[c].pc = "await_orig"
    /\ \E resp \in Responses(calls[c].ep) :
         LET call == [calls[c] EXCEPT !.origResp = resp] IN
         IF resp.kind = "ok"
         THEN Return(c, call, DataResult(resp.body)) /\ UNCHANGED <<access, refresh, auth>>
         ELSE IF ShouldHandle401(resp, Url(call.ep))
         THEN Handle401(c, call)
         ELSE Return(c, call, ErrorResult(resp)) /\ UNCHANGED <<access, refresh, auth>>
    /\ UNCHANGED <<now, slots, rs, restoring, probe>>

\* the refresh request comes back: the rest of attemptTokenRefresh
RecvRefresh(c) ==
    /\ calls[c].pc = "await_refresh"
    /\ \E resp \in RefreshOkResponses \cup RefreshErrResponses :
         LET store == RefreshStore(resp, [access |-> access, refresh |-> refresh]) IN
         /\ access' = store.access
         /\ refresh' = store.refresh
         /\ calls' = [calls EXCEPT ![c] = [@ EXCEPT !.pc = "refresh_returned",
                                                    !.refreshResp = resp,
                                                    !.rr = RefreshOutcome(resp)]]
    /\ UNCHANGED <<auth, now, slots, rs, restoring, probe>>

\* handle401Error after attemptTokenRefresh returned, and execute()'s use of it
AfterRefresh(c) ==
    /\ calls[c].pc = "refresh_returned"
    /\ LET call == calls[c] IN
       IF call.rr.success
       THEN /\ IF ShouldRetry(call.rr)
               THEN calls' = [calls EXCEPT ![c] =
                        [call EXCEPT !.pc = "await_retry",
                                     !.retryHeaders =
                                         buildRequestHeaders(Method(call.ep), Data(call.ep),
                                                             call.rr.newToken, call.custom),
                                     !.nRetry = @ + 1]]
               ELSE Return(c, call, ErrorResult(call.origResp))
            /\ UNCHANGED <<access, refresh, auth>>
       ELSE ClearAuthBegin(c, call, SessionExpiredArg, TRUE)
    /\ UNCHANGED <<now, slots, rs, restoring, probe>>

\* clearAuthAndLogout after its dynamic imports: logout(), authFailed(message);
\* handle401Error returns shouldRetry false and execute() the original error
FinishLogout(c) ==
    /\ calls[c].pc = "logout_import"
    /\ auth' = authFailed(logout(auth),
                          ClearAuthMessage(calls[c].logoutMsg, calls[c].logoutExpiry))
    /\ Return(c, calls[c], ErrorResult(calls[c].origResp))
    /\ UNCHANGED <<access, refresh, now, slots, rs, restoring, probe>>

\* faulty variant: a 401 on the retry handled like the first one
RetryFailed_Retriage(c, call, retryErr) ==
    IF ShouldHandle401(retryErr, Url(call.ep))
    THEN Handle401(c, [call EXCEPT !.origResp = retryErr])
    ELSE /\ Return(c, call, RetryFailureResult(call.origResp, retryErr))
         /\ UNCHANGED <<access, refresh, auth>>

\* the catch around the retry: no second triage, the call returns
RetryFailed(c, call, retryErr) ==
    /\ Return(c, call, RetryFailureResult(call.origResp, retryErr))
    /\ UNCHANGED <<access, refresh, auth>>

\* the retried request comes back
RecvRetry(c) ==
    /\ calls[c].pc = "await_retry"
    /\ \E resp \in RetryResponses(calls[c].ep) :
         LET call == [calls[c] EXCEPT !.retryResp = resp] IN
         IF resp.kind = "ok"
         THEN Return(c, call, DataResult(resp.body)) /\ UNCHANGED <<access, refresh, auth>>
         ELSE RetryFailed(c, call, resp)
    /\ UNCHANGED <<now, slots, rs, restoring, probe>>

-----------------------------------------------------------------------------
(* onQueryStarted of the endpoints (api.slice.ts), run once execute() settled *)

\* login: response.data.token.token, response.data.token.refreshToken, response.data.user
LoginSettled(call) ==
    IF call.pc = "returned" /\ call.result.kind = "data"
       /\ call.result.data.data.t = "login"
    THEN /\ access' = SetItem(call.result.data.data.token)
         /\ refresh' = SetItem(call.result.data.data.refreshToken)
         /\ auth' = setUser(auth, call.result.data.data.user)
    ELSE /\ auth' = authFailed(auth, LoginFailedMsg)
         /\ UNCHANGED <<access, refresh>>

\* refreshToken: response.data.token, response.data.refreshToken; logout() on failure
RefreshTokenSettled(call) ==
    IF call.pc = "returned" /\ call.result.kind = "data"
       /\ call.result.data.data # NoData
    THEN /\ access' = SetItem(Field(call.result.data.data, "token"))
         /\ refresh' = SetItem(Field(call.result.data.data, "refreshToken"))
         /\ UNCHANGED auth
    ELSE /\ auth' = logout(auth)
         /\ UNCHANGED <<access, refresh>>

Settle(c) ==
    /\ c \in slots
    /\ calls[c].pc \in {"returned", "threw"}
    /\ CASE calls[c].ep = "login"        -> LoginSettled(calls[c])
         [] calls[c].ep = "refreshToken" -> RefreshTokenSettled(calls[c])
         [] OTHER                        -> UNCHANGED <<access, refresh, auth>>
    /\ calls' = [calls EXCEPT ![c] = IdleCall]
    /\ UNCHANGED <<now, slots, rs, restoring, probe>>

-----------------------------------------------------------------------------
(* restoreUserSession, shouldRestoreSession (session-restore.ts) and the    *)
(* SessionInitializer effect that runs them                                *)

\* the slot in which restoreUserSession's profile requests run
RestoreSlot == CHOOSE c \in CallIds : c \notin slots

\* getUserProfile.initiate(): an execute() call of the profile endpoint
ProfileCall(token) ==
    [IdleCall EXCEPT !.pc = "await_orig",
                     !.ep = "getUserProfile",
                     !.reqHeaders = buildRequestHeaders(Method("getUserProfile"),
                                                        Data("getUserProfile"),
                                                        token, NoHeaders),
                     !.nOrig = 1]

\* what fetchUserProfile makes of the settled call
fetchUserProfile(call) ==
    IF call.pc = "returned" /\ call.result.kind = "data"
       /\ call.result.data.statusCode = 200
    THEN [success |-> TRUE,
          user    |-> IF call.result.data.data.t = "user"
                      THEN call.result.data.data.user ELSE NoUser,
          result  |-> call.result]
    ELSE [success |-> FALSE, user |-> NoUser,
          result  |-> IF call.pc = "threw" THEN [kind |-> "threw"] ELSE call.result]

\* profileResult.success && profileResult.user
ProfileAccepted(pr) == pr.success /\ pr.user # NoUser

\* faulty variant: the access token's state not looked at
Step3Plan_RefreshValidOnly(accessToken, refreshToken, time) ==
    IF IsTokenValid(refreshToken, time) THEN "refresh" ELSE "fallback"

\* isTokenExpired(accessToken) && isTokenValid(refreshToken), else the cleanup
Step3Plan(accessToken, refreshToken, time) ==
    IF IsTokenExpired(accessToken, time) /\ IsTokenValid(refreshToken, time)
    THEN "refresh" ELSE "fallback"

\* faulty variant: the test for missing tokens left out
RestorePlan_NoPresenceCheck(accessToken, refreshToken, time) ==
    IF IsTokenValid(accessToken, time) /\ IsTokenValid(refreshToken, time)
    THEN "profile"
    ELSE Step3Plan(accessToken, refreshToken, time)

\* the branch restoreUserSession takes once it has read the two tokens
RestorePlan(accessToken, refreshToken, time) ==
    IF ~Truthy(accessToken) \/ ~Truthy(refreshToken) THEN "notokens"
    ELSE IF IsTokenValid(accessToken, time) /\ IsTokenValid(refreshToken, time)
    THEN "profile"
    ELSE Step3Plan(accessToken, refreshToken, time)

\* await fetchUserProfile(): the profile request is dispatched
FetchProfile(loc, pc, token) ==
    /\ calls' = [calls EXCEPT ![RestoreSlot] = ProfileCall(token)]
    /\ rs' = [loc EXCEPT !.pc = pc, !.nProfile = @ + 1]

\* the cleanup at the end: both tokens removed, logout()
Fallback(loc) ==
    /\ access' = ClearedStore.access
    /\ refresh' = ClearedStore.refresh
    /\ auth' = logout(auth)
    /\ rs' = [loc EXCEPT !.pc = "done", !.path = "fallback"]
    /\ calls' = [calls EXCEPT ![RestoreSlot] = IdleCall]

\* the second `if` of restoreUserSession and what follows it
Step3(loc) ==
    IF Step3Plan(loc.accessToken, loc.refreshToken, now) = "refresh"
    THEN LET entry == AttemptRefreshEntry(refresh, now)
             att   == [loc EXCEPT !.nAttempt = @ + 1]
         IN  IF entry = "dispatch"
             THEN /\ rs' = [att EXCEPT !.pc = "await_refresh",
                                       !.sentRefresh = refresh,
                                       !.nRefresh = @ + 1]
                  /\ calls' = [calls EXCEPT ![RestoreSlot] = IdleCall]
                  /\ UNCHANGED <<access, refresh, auth>>
             ELSE Fallback([att EXCEPT !.rr = RefreshFailed(entry)])
    ELSE Fallback(loc)

\* restoreUserSession from its entry to its first await or its return
RestoreBegin(r0) ==
    LET plan == RestorePlan(access, refresh, now)
        loc  == [r0 EXCEPT !.accessToken = access, !.refreshToken = refresh,
                           !.plan = plan]
    IN  CASE plan = "notokens" ->
               /\ auth' = logout(auth)
               /\ rs' = [loc EXCEPT !.pc = "done", !.path = "notokens"]
               /\ UNCHANGED <<access, refresh, calls>>
          [] plan = "profile" ->
               /\ FetchProfile(loc, "profile1", access)
               /\ UNCHANGED <<access, refresh, auth>>
          [] OTHER -> Step3(loc)

\* faulty variant: the authentication flag not consulted
shouldRestoreSession_TokensOnly == Truthy(access) /\ Truthy(refresh)

\* hasTokens && !isAuthenticated
shouldRestoreSession ==
    (Truthy(access) /\ Truthy(refresh)) /\ ~auth.isAuthenticated

\* faulty variant: the flag cleared only after a restoration
InitializerFinally_OnlyAfterRestore(should, cur) == IF should THEN FALSE ELSE cur

\* finally { setIsRestoringSession(false) }
InitializerFinally(should, cur) == FALSE

\* SessionInitializer mounts and its effect starts: shouldRestoreSession()
InitializerRun ==
    /\ rs.pc = "idle"
    /\ \A c \in CallIds : calls[c].pc = "idle"
    /\ rs' = [IdleRestore EXCEPT !.pc = "checked", !.via = "initializer",
                                 !.should = shouldRestoreSession]
    /\ restoring' = TRUE
    /\ UNCHANGED <<access, refresh, auth, now, calls, slots, probe>>

\* if (shouldRestoreSession()) await restoreUserSession()
InitializerRestore ==
    /\ rs.pc = "checked"
    /\ rs.should
    /\ RestoreBegin(rs)
    /\ UNCHANGED <<now, slots, restoring, probe>>

\* restoreUserSession() called by other code than the initializer
RestoreCalled ==
    /\ rs.pc = "idle"
    /\ ~restoring
    /\ \A c \in CallIds : calls[c].pc = "idle"
    /\ RestoreBegin([IdleRestore EXCEPT !.via = "direct"])
    /\ UNCHANGED <<now, slots, restoring, probe>>

\* a fetchUserProfile() of restoreUserSession has settled
RestoreProfileDone ==
    /\ rs.pc \in {"profile1", "profile2"}
    /\ calls[RestoreSlot].pc \in {"returned", "threw"}
    /\ LET pr  == fetchUserProfile(calls[RestoreSlot])
           loc == [rs EXCEPT !.fetches = Append(@, pr)]
       IN  IF ProfileAccepted(pr)
           THEN /\ auth' = setUser(auth, pr.user)
                /\ rs' = [loc EXCEPT !.pc = "done", !.path = rs.pc]
                /\ calls' = [calls EXCEPT ![RestoreSlot] = IdleCall]
                /\ UNCHANGED <<access, refresh>>
           ELSE IF rs.pc = "profile1" THEN Step3(loc) ELSE Fallback(loc)
    /\ UNCHANGED <<now, slots, restoring, probe>>

\* the refresh request of restoreUserSession's attemptTokenRefresh comes back
RestoreRecvRefresh ==
    /\ rs.pc = "await_refresh"
    /\ \E resp \in RefreshOkResponses \cup RefreshErrResponses :
         LET store == RefreshStore(resp, [access |-> access, refresh |-> refresh])
             loc   == [rs EXCEPT !.refreshResp = resp, !.rr = RefreshOutcome(resp)]
         IN  IF loc.rr.success
             THEN /\ access' = store.access
                  /\ refresh' = store.refresh
                  /\ FetchProfile(loc, "profile2", store.access)
                  /\ UNCHANGED auth
             ELSE Fallback(loc)
    /\ UNCHANGED <<now, slots, restoring, probe>>

\* the initializer's finally block
InitializerFinish ==
    /\ rs.via = "initializer"
    /\ \/ rs.pc = "done"
       \/ rs.pc = "checked" /\ ~rs.should
    /\ restoring' = InitializerFinally(rs.should, restoring)
    /\ rs' = IdleRestore
    /\ UNCHANGED <<access, refresh, auth, now, calls, slots, probe>>

\* a directly called restoreUserSession() has returned to its caller
RestoreReturned ==
    /\ rs.via = "direct"
    /\ rs.pc = "done"
    /\ rs' = IdleRestore
    /\ UNCHANGED <<access, refresh, auth, now, calls, slots, restoring, probe>>

\* time passes
Tick ==
    /\ now < MaxTicks * TickMs
    /\ now' = now + TickMs
    /\ UNCHANGED <<access, refresh, auth, calls, slots, rs, restoring, probe>>

Next ==
    \/ \E c \in CallIds : Start(c)
    \/ \E c \in CallIds : RecvOrig(c)
    \/ \E c \in CallIds : RecvRefresh(c)
    \/ \E c \in CallIds : AfterRefresh(c)
    \/ \E c \in CallIds : FinishLogout(c)
    \/ \E c \in CallIds : RecvRetry(c)
    \/ \E c \in CallIds : Settle(c)
    \/ InitializerRun
    \/ InitializerRestore
    \/ RestoreCalled
    \/ RestoreProfileDone
    \/ RestoreRecvRefresh
    \/ InitializerFinish
    \/ RestoreReturned
    \/ Tick

Spec == Init /\ [][Next]_vars

\* Every dispatched request eventually comes back (axios settles or times
\* out), every continuation of an async function whose await has settled
\* runs, and the effect of a mounted SessionInitializer runs.  Nothing is
\* assumed of the clock, of the application's own calls or of remounts.
Fairness ==
    /\ WF_vars(\E c \in CallIds : RecvOrig(c))
    /\ WF_vars(\E c \in CallIds : RecvRefresh(c))
    /\ WF_vars(\E c \in CallIds : AfterRefresh(c))
    /\ WF_vars(\E c \in CallIds : FinishLogout(c))
    /\ WF_vars(\E c \in CallIds : RecvRetry(c))
    /\ WF_vars(restoring /\ InitializerRun)
    /\ WF_vars(InitializerRestore)
    /\ WF_vars(RestoreProfileDone)
    /\ WF_vars(RestoreRecvRefresh)
    /\ WF_vars(InitializerFinish)

\* For the liveness check the application's own traffic is kept to logins
\* with default headers: what restoreUserSession and the initializer do, and
\* what their requests come back with, is left unrestricted.
LiveStart(c) ==
    /\ Start(c)
    /\ calls'[c].ep = "login"
    /\ calls'[c].custom = NoHeaders

LiveNext ==
    \/ \E c \in CallIds : LiveStart(c)
    \/ \E c \in CallIds : RecvOrig(c)
    \/ \E c \in CallIds : RecvRefresh(c)
    \/ \E c \in CallIds : AfterRefresh(c)
    \/ \E c \in CallIds : FinishLogout(c)
    \/ \E c \in CallIds : RecvRetry(c)
    \/ \E c \in CallIds : Settle(c)
    \/ InitializerRun
    \/ InitializerRestore
    \/ RestoreCalled
    \/ RestoreProfileDone
    \/ RestoreRecvRefresh
    \/ InitializerFinish
    \/ RestoreReturned
    \/ Tick

LiveSpec == Init /\ [][LiveNext]_vars /\ Fairness

-----------------------------------------------------------------------------
(* The reducers of the auth slice on their own: dispatched from every      *)
(* AuthState, whether the application reaches it or not                    *)

AuthErrors == {SessionExpiryMsg, SessionExpiredArg, AuthFailedMsg, AuthErrorMsg,
               LoginFailedMsg}

AuthStates ==
    [user : Users \cup {NoUser}, isAuthenticated : BOOLEAN, loading : BOOLEAN,
     error : AuthErrors \cup {NoError}]

\* everything but AuthState and the probe at rest
Quiet ==
    /\ access = NoToken
    /\ refresh = NoToken
    /\ now = 0
    /\ calls = [c \in CallIds |-> IdleCall]
    /\ slots = {1}
    /\ rs = IdleRestore
    /\ restoring = FALSE

ReducerInit ==
    /\ Quiet
    /\ auth \in AuthStates
    /\ probe = NoProbe

Dispatched(op, arg) == [op |-> op, arg |-> arg, pre |-> auth]

DispatchSetUser ==
    /\ \E u \in Users :
         /\ auth' = setUser(auth, u)
         /\ probe' = Dispatched("setUser", u)
    /\ UNCHANGED <<access, refresh, now, calls, slots, rs, restoring>>

DispatchLogout ==
    /\ auth' = logout(auth)
    /\ probe' = Dispatched("logout", "none")
    /\ UNCHANGED <<access, refresh, now, calls, slots, rs, restoring>>

DispatchAuthLoading ==
    /\ auth' = authLoading(auth)
    /\ probe' = Dispatched("authLoading", "none")
    /\ UNCHANGED <<access, refresh, now, calls, slots, rs, restoring>>

DispatchAuthFailed ==
    /\ \E message \in AuthErrors :
         /\ auth' = authFailed(auth, message)
         /\ probe' = Dispatched("authFailed", message)
    /\ UNCHANGED <<access, refresh, now, calls, slots, rs, restoring>>

ReducerNext ==
    \/ DispatchSetUser
    \/ DispatchLogout
    \/ DispatchAuthLoading
    \/ DispatchAuthFailed

ReducerSpec == ReducerInit /\ [][ReducerNext]_vars

-----------------------------------------------------------------------------
(* Two execute() calls at the same time                                     *)

\* A restored or logged-in session whose access token is about to expire;
\* two components issue requests independently.
ConcInit ==
    /\ access = T1
    /\ refresh \in {T2, T3}
    /\ auth \in {setUser(initialState, u) : u \in Users}
    /\ now = 0
    /\ calls = [c \in CallIds |-> IdleCall]
    /\ slots = CallIds
    /\ rs = IdleRestore
    /\ restoring = FALSE
    /\ probe = NoProbe

\* the two callers fetch the profile with default headers
ConcStart(c) ==
    /\ Start(c)
    /\ calls'[c].ep = "getUserProfile"
    /\ calls'[c].custom = NoHeaders

\* one answer of each kind the two calls can tell apart: a success, a 401 of
\* each triage branch, an error that is no 401
ConcResponses ==
    {Ok(Env(200, UserData("u1"))), Err(401, Body(StrMsg(M_JwtExpired))),
     Err(401, Body(StrMsg(M_InvalidSignature))), Err(401, NoBody), Err(500, NoBody)}

\* the server rotates the tokens, or rejects the refresh token
ConcRefreshResponses ==
    {Ok(Env(200, TokenData(T2, T3))), Err(401, Body(StrMsg(M_JwtExpired)))}

ConcRecvOrig(c) ==
    /\ RecvOrig(c)
    /\ calls'[c].origResp \in ConcResponses

ConcRecvRefresh(c) ==
    /\ RecvRefresh(c)
    /\ calls'[c].refreshResp \in ConcRefreshResponses

ConcRecvRetry(c) ==
    /\ RecvRetry(c)
    /\ calls'[c].retryResp \in ConcResponses

ConcNext ==
    \/ \E c \in CallIds : ConcStart(c)
    \/ \E c \in CallIds : ConcRecvOrig(c)
    \/ \E c \in CallIds : ConcRecvRefresh(c)
    \/ \E c \in CallIds : AfterRefresh(c)
    \/ \E c \in CallIds : FinishLogout(c)
    \/ \E c \in CallIds : ConcRecvRetry(c)
    \/ \E c \in CallIds : Settle(c)
    \/ Tick

ConcSpec == ConcInit /\ [][ConcNext]_vars

-----------------------------------------------------------------------------
(* restoreUserSession() called while a request of the application is in     *)
(* flight, and the other way round                                          *)

\* tokens are stored and AuthState is logged out: the state in which a
\* restoration is asked for
RaceInit ==
    /\ access = T1
    /\ refresh = T3
    /\ auth = initialState
    /\ now = 0
    /\ calls = [c \in CallIds |-> IdleCall]
    /\ slots = {1}
    /\ rs = IdleRestore
    /\ restoring = FALSE
    /\ probe = NoProbe

\* a login or a profile request with default headers, whatever restore does
RaceStart(c) ==
    /\ Dispatch(c)
    /\ calls'[c].ep \in {"login", "getUserProfile"}
    /\ calls'[c].custom = NoHeaders

\* the exported restoreUserSession() is called, whatever requests are in flight
RaceRestoreCalled ==
    /\ rs.pc = "idle"
    /\ calls[RestoreSlot].pc = "idle"
    /\ RestoreBegin([IdleRestore EXCEPT !.via = "direct"])
    /\ UNCHANGED <<now, slots, restoring, probe>>

RaceResponses ==
    ConcResponses \cup {Ok(Env(200, LoginData("u1", T2, T3)))}

RaceRecvOrig(c) ==
    /\ RecvOrig(c)
    /\ calls'[c].origResp \in RaceResponses

RaceRecvRetry(c) ==
    /\ RecvRetry(c)
    /\ calls'[c].retryResp \in RaceResponses

RaceRestoreRecvRefresh ==
    /\ RestoreRecvRefresh
    /\ rs'.refreshResp \in ConcRefreshResponses

RaceNext ==
    \/ \E c \in CallIds : RaceStart(c)
    \/ \E c \in CallIds : RaceRecvOrig(c)
    \/ \E c \in CallIds : ConcRecvRefresh(c)
    \/ \E c \in CallIds : AfterRefresh(c)
    \/ \E c \in CallIds : FinishLogout(c)
    \/ \E c \in CallIds : RaceRecvRetry(c)
    \/ \E c \in CallIds : Settle(c)
    \/ RaceRestoreCalled
    \/ RestoreProfileDone
    \/ RaceRestoreRecvRefresh
    \/ RestoreReturned
    \/ Tick

RaceSpec == RaceInit /\ [][RaceNext]_vars

-----------------------------------------------------------------------------
(* The headers execute() builds, for every kind of request                  *)

CallerContent == [ContentType |-> [v |-> "caller-supplied"], Authorization |-> Absent]
CallerBoth    == [ContentType |-> [v |-> "caller-supplied"],
                  Authorization |-> [v |-> "caller-supplied"]]

HeaderMethods == {"get", "GET", "POST"}
HeaderData    == {"none", "formdata", "string", "object"}
HeaderCustoms == {NoHeaders, CallerAuth, CallerContent, CallerBoth}

HeaderInit ==
    /\ access \in {NoToken, EmptyTok, UndefTok, T1}
    /\ refresh = NoToken
    /\ auth = initialState
    /\ now = 0
    /\ calls = [c \in CallIds |-> IdleCall]
    /\ slots = {1}
    /\ rs = IdleRestore
    /\ restoring = FALSE
    /\ probe = NoProbe

\* const token = getAccessToken(); buildRequestHeaders(method, data, token, headers)
ExecuteHeaders ==
    /\ \E method \in HeaderMethods, data \in HeaderData, custom \in HeaderCustoms :
         probe' = [op |-> "requestHeaders", method |-> method, data |-> data,
                   token |-> access, custom |-> custom,
                   out |-> buildRequestHeaders(method, data, access, custom)]
    /\ UNCHANGED <<access, refresh, auth, now, calls, slots, rs, restoring>>

HeaderNext == ExecuteHeaders

HeaderSpec == HeaderInit /\ [][HeaderNext]_vars

-----------------------------------------------------------------------------
(* The codec functions on their own: one token string, one clock value     *)

FourParts == <<HeaderSeg, ClaimsSeg(3), SigSeg, SigSeg>>

\* strings of one to four segments; the second segment missing, empty, not
\* base64url, not JSON, JSON but no object, or a claims object whose exp is
\* a number, zero, missing or a non-numeric string
CodecTokens ==
    {EmptyTok, UndefTok, <<HeaderSeg>>, TTwo, <<HeaderSeg, ClaimsSeg(1)>>, FourParts,
     T1, T2, JWT(NoExp), JWT(0), JWT(StrExp), TBad,
     <<HeaderSeg, SigSeg, SigSeg>>, <<HeaderSeg, EmptySeg, SigSeg>>,
     <<HeaderSeg, ScalarSeg, SigSeg>>, <<HeaderSeg, GarbageSeg>>}

\* the string under test is the one getAccessToken() would hand over
CodecInit ==
    /\ access \in CodecTokens
    /\ now \in {i * TickMs : i \in 0..MaxTicks}
    /\ refresh = NoToken
    /\ auth = initialState
    /\ calls = [c \in CallIds |-> IdleCall]
    /\ slots = {1}
    /\ rs = IdleRestore
    /\ restoring = FALSE
    /\ probe = NoProbe

Called(op, out) == [op |-> op, token |-> access, time |-> now, out |-> out]

CallDecodeJWT ==
    /\ probe' = Called("decodeJWT", DecodeJWT(access))
    /\ UNCHANGED <<access, refresh, auth, now, calls, slots, rs, restoring>>

CallIsTokenExpired ==
    /\ probe' = Called("isTokenExpired", IsTokenExpired(access, now))
    /\ UNCHANGED <<access, refresh, auth, now, calls, slots, rs, restoring>>

CallIsTokenValid ==
    /\ probe' = Called("isTokenValid", IsTokenValid(access, now))
    /\ UNCHANGED <<access, refresh, auth, now, calls, slots, rs, restoring>>

CodecNext ==
    \/ CallDecodeJWT
    \/ CallIsTokenExpired
    \/ CallIsTokenValid

CodecSpec == CodecInit /\ [][CodecNext]_vars

-----------------------------------------------------------------------------
(* The TokenStore functions on their own                                   *)

\* the strings handed to setAccessToken / setRefreshToken
StoreTokens == {EmptyTok, UndefTok, T1, T2}

\* the last write to each key: the string of the last set, NoToken after a
\* remove; what the store holds at the start counts as written
StoreInit ==
    /\ access \in StoreTokens \cup {NoToken}
    /\ refresh \in StoreTokens \cup {NoToken}
    /\ now = 0
    /\ auth = initialState
    /\ calls = [c \in CallIds |-> IdleCall]
    /\ slots = {1}
    /\ rs = IdleRestore
    /\ restoring = FALSE
    /\ probe = [op |-> "none", out |-> NoToken,
                wroteAccess |-> access, wroteRefresh |-> refresh]

StoreFrame == UNCHANGED <<auth, now, calls, slots, rs, restoring>>

setAccessToken(token) ==
    /\ access' = SetItem(token)
    /\ probe' = [probe EXCEPT !.op = "setAccessToken", !.wroteAccess = token]
    /\ UNCHANGED refresh
    /\ StoreFrame

getAccessToken ==
    /\ probe' = [probe EXCEPT !.op = "getAccessToken", !.out = access]
    /\ UNCHANGED <<access, refresh>>
    /\ StoreFrame

\* faulty variant: localStorage.clear() in place of removeItem
removeAccessToken_ClearsAll ==
    /\ access' = NoToken
    /\ refresh' = NoToken
    /\ probe' = [probe EXCEPT !.op = "removeAccessToken", !.wroteAccess = NoToken]
    /\ StoreFrame

removeAccessToken ==
    /\ access' = NoToken
    /\ probe' = [probe EXCEPT !.op = "removeAccessToken", !.wroteAccess = NoToken]
    /\ UNCHANGED refresh
    /\ StoreFrame

setRefreshToken(token) ==
    /\ refresh' = SetItem(token)
    /\ probe' = [probe EXCEPT !.op = "setRefreshToken", !.wroteRefresh = token]
    /\ UNCHANGED access
    /\ StoreFrame

getRefreshToken ==
    /\ probe' = [probe EXCEPT !.op = "getRefreshToken", !.out = refresh]
    /\ UNCHANGED <<access, refresh>>
    /\ StoreFrame

removeRefreshToken ==
    /\ refresh' = NoToken
    /\ probe' = [probe EXCEPT !.op = "removeRefreshToken", !.wroteRefresh = NoToken]
    /\ UNCHANGED access
    /\ StoreFrame

StoreNext ==
    \/ \E t \in StoreTokens : setAccessToken(t)
    \/ getAccessToken
    \/ removeAccessToken
    \/ \E t \in StoreTokens : setRefreshToken(t)
    \/ getRefreshToken
    \/ removeRefreshToken

StoreSpec == StoreInit /\ [][StoreNext]_vars

-----------------------------------------------------------------------------
(* Properties of execute() and attemptTokenRefresh *)

Is401(resp) == resp.kind = "err" /\ resp.status = 401

\* what the triage of a 401 answer is to be, message by message
ExpectedClass(resp) ==
    LET m == resp.body.message IN
    IF ~resp.body.present \/ m.has = "none" THEN "UNKNOWN"
    ELSE IF m.has = "nonstr" THEN "NOT-A-STRING"
    ELSE CASE m.text \in {M_JwtExpired, M_TokenExpiredCaps, M_InvalidExpired} -> "EXPIRED"
           [] m.text \in {M_InvalidSignature, M_JwtMalformed} -> "INVALID"
           [] m.text \in {M_Unauthorized, M_Expires, M_Empty} -> "UNKNOWN"

\* a non-refresh request whose original answer was a 401 of class `class`
Got401(call, class) ==
    /\ call.pc # "idle"
    /\ Url(call.ep) # RefreshUrl
    /\ Is401(call.origResp)
    /\ ExpectedClass(call.origResp) = class

\* the refresh endpoint answered statusCode 200 with both tokens
SuccessEnvelope(resp) ==
    /\ resp.kind = "ok"
    /\ resp.body.statusCode = 200
    /\ resp.body.data.t = "tokens"
    /\ Truthy(resp.body.data.token)
    /\ Truthy(resp.body.data.refreshToken)

LoggedOutWith(message) ==
    auth = [user |-> NoUser, isAuthenticated |-> FALSE, loading |-> FALSE,
            error |-> message]

\* C1: an EXPIRED 401 followed by a success envelope from the refresh endpoint
\* makes execute() retry with Authorization: Bearer <new access token>, return
\* the retried response as data, and leaves exactly the response's token pair
\* in the TokenStore.
C1_RefreshThenRetry ==
    \A c \in CallIds :
      LET call == calls[c] IN
      (call.pc = "returned" /\ Got401(call, "EXPIRED") /\ SuccessEnvelope(call.refreshResp))
        => /\ call.nRetry = 1
           /\ call.retryHeaders.Authorization = Bearer(call.refreshResp.body.data.token)
           /\ call.retryResp.kind = "ok" => call.result = DataResult(call.retryResp.body)
           /\ access = call.refreshResp.body.data.token
           /\ refresh = call.refreshResp.body.data.refreshToken

C1_Witness ==
    \E c \in CallIds :
      /\ calls[c].pc = "returned"
      /\ Got401(calls[c], "EXPIRED")
      /\ SuccessEnvelope(calls[c].refreshResp)
      /\ calls[c].custom = CallerAuth
      /\ calls[c].retryResp.kind = "ok"
      /\ calls[c].result.kind = "data"
      /\ access = T2 /\ refresh = T3

\* C2 as stated: after a successful refresh execute() returns the outcome of the
\* retried request, and when the retry fails the error carries the retry's
\* status and body.
C2_ReturnsRetryOutcome ==
    \A c \in CallIds :
      LET call == calls[c] IN
      (call.pc = "returned" /\ call.nRetry = 1)
        => /\ call.retryResp.kind = "ok" => call.result = DataResult(call.retryResp.body)
           /\ call.retryResp.kind # "ok"
                => call.result = [kind |-> "error",
                                  status |-> ErrStatus(call.retryResp),
                                  data |-> ErrData(call.retryResp)]

\* C2 amended: after a successful refresh execute() returns the retried
\* response as data when the retry succeeds, and the ORIGINAL 401 error (its
\* status and body) when the retry fails.
C2_ReturnsOriginalErrorOnRetryFailure ==
    \A c \in CallIds :
      LET call == calls[c] IN
      (call.pc = "returned" /\ call.nRetry = 1)
        => /\ call.retryResp.kind = "ok" => call.result = DataResult(call.retryResp.body)
           /\ call.retryResp.kind # "ok"
                => call.result = [kind |-> "error",
                                  status |-> 401,
                                  data |-> ErrData(call.origResp)]

C2_Witness ==
    \E c \in CallIds :
      /\ calls[c].pc = "returned"
      /\ calls[c].nRetry = 1
      /\ calls[c].retryResp = Err(500, NoBody)
      /\ calls[c].result.kind = "error"

\* C3: one execute() sends the original request once, makes at most one refresh
\* request and at most one retry (three dispatches at most), and once the retry
\* has come back, whatever it came back with, the call has returned.
C3_AtMostOneRefreshOneRetry ==
    \A c \in CallIds :
      LET call == calls[c] IN
      /\ call.nOrig <= 1
      /\ call.nRefresh <= 1
      /\ call.nRetry <= 1
      /\ call.nOrig + call.nRefresh + call.nRetry <= 3
      /\ call.nRetry = 1 => call.nRefresh = 1
      /\ call.retryResp # NoResp => call.pc = "returned"

C3_Witness ==
    \E c \in CallIds :
      /\ calls[c].pc = "returned"
      /\ calls[c].nOrig + calls[c].nRefresh + calls[c].nRetry = 3
      /\ Is401(calls[c].retryResp)
      /\ ExpectedClass(calls[c].retryResp) = "EXPIRED"

\* the refresh attempt of the call failed: nothing was sent (no or invalid
\* refresh token), or the request failed, or its answer is no success envelope
RefreshAttemptFailed(call) ==
    \/ call.refreshResp = NoResp
    \/ call.refreshResp.kind # "ok"
    \/ call.refreshResp.body.statusCode # 200
    \/ call.refreshResp.body.data = NoData

\* C4: an EXPIRED 401 whose refresh attempt fails is not retried; execute()
\* returns the original 401 error, both tokens are gone and AuthState is logged
\* out with the session-expired message.
C4_RefreshFailureLogsOut ==
    \A c \in CallIds :
      LET call == calls[c] IN
      (call.pc = "returned" /\ Got401(call, "EXPIRED") /\ RefreshAttemptFailed(call))
        => /\ call.nRetry = 0
           /\ call.result = [kind |-> "error", status |-> 401,
                             data |-> ErrData(call.origResp)]
           /\ access = NoToken
           /\ refresh = NoToken
           /\ LoggedOutWith(SessionExpiryMsg)

C4_Witness ==
    \E c \in CallIds :
      /\ calls[c].pc = "returned"
      /\ Got401(calls[c], "EXPIRED")
      /\ calls[c].refreshResp = Err(400, Body(StrMsg(M_Unauthorized)))
      /\ LoggedOutWith(SessionExpiryMsg)

\* C5: an INVALID or UNKNOWN 401 sends no refresh request and no retry, removes
\* both tokens, logs AuthState out with a generic message and returns the
\* original 401 error.
C5_InvalidOrUnknownLogsOut ==
    \A c \in CallIds :
      LET call == calls[c] IN
      (call.pc = "returned"
         /\ (Got401(call, "INVALID") \/ Got401(call, "UNKNOWN")))
        => /\ call.nRefresh = 0
           /\ call.nRetry = 0
           /\ access = NoToken
           /\ refresh = NoToken
           /\ \/ LoggedOutWith(AuthFailedMsg)
              \/ LoggedOutWith(AuthErrorMsg)
           /\ call.result = [kind |-> "error", status |-> 401,
                             data |-> ErrData(call.origResp)]

C5_Witness ==
    \E c \in CallIds :
      /\ calls[c].pc = "returned"
      /\ Got401(calls[c], "INVALID")
      /\ calls[c].origResp.body.message.text = M_InvalidSignature
      /\ LoggedOutWith(AuthFailedMsg)

\* the step in which the original request of call c comes back
OrigComesBack(c) == calls[c].pc = "await_orig" /\ calls'[c].pc # "await_orig"

\* C6: a failure with a status other than 401, or with no response at all
\* (status undefined, a timeout included), is returned as {status, data} in the
\* same step: no refresh request, no retry, TokenStore and AuthState untouched.
C6_OtherErrorsPassThrough ==
    [][\A c \in CallIds :
         (/\ OrigComesBack(c)
          /\ calls'[c].origResp.kind \in {"err", "noresp"}
          /\ ~Is401(calls'[c].origResp))
           => /\ calls'[c].pc = "returned"
              /\ calls'[c].result =
                   [kind   |-> "error",
                    status |-> IF calls'[c].origResp.kind = "err"
                               THEN calls'[c].origResp.status ELSE StatusUndefined,
                    data   |-> ErrData(calls'[c].origResp)]
              /\ calls'[c].nOrig = 1
              /\ calls'[c].nRefresh = 0
              /\ calls'[c].nRetry = 0
              /\ access' = access
              /\ refresh' = refresh
              /\ auth' = auth]_vars

C6_Witness ==
    \E c \in CallIds :
      /\ calls[c].pc = "returned"
      /\ calls[c].origResp = Lost("timeout of 600000ms exceeded")
      /\ calls[c].result.status = StatusUndefined
      /\ auth.isAuthenticated
      /\ access = T2 /\ refresh = T3

\* C7: a 401 on a request to auth/refresh-token itself is returned as it is, in
\* the same step: no triage, no refresh request, no retry, TokenStore and
\* AuthState untouched.
C7_RefreshEndpointNotHandled ==
    [][\A c \in CallIds :
         (/\ OrigComesBack(c)
          /\ Url(calls'[c].ep) = RefreshUrl
          /\ Is401(calls'[c].origResp))
           => /\ calls'[c].pc = "returned"
              /\ calls'[c].result = [kind |-> "error", status |-> 401,
                                     data |-> ErrData(calls'[c].origResp)]
              /\ calls'[c].triage = "none"
              /\ calls'[c].nRefresh = 0
              /\ calls'[c].nRetry = 0
              /\ access' = access
              /\ refresh' = refresh
              /\ auth' = auth]_vars

C7_Witness ==
    \E c \in CallIds :
      /\ calls[c].pc = "returned"
      /\ calls[c].ep = "refreshToken"
      /\ Is401(calls[c].origResp)
      /\ ExpectedClass(calls[c].origResp) = "EXPIRED"
      /\ auth.isAuthenticated
      /\ IsTokenValid(refresh, now)

\* C8: the triage of a 401 message is EXPIRED when it contains 'expired' in any
\* letter case, even next to 'invalid'; else INVALID when it contains 'invalid'
\* or 'malformed'; else, a missing or empty message included, UNKNOWN; and
\* UNKNOWN is handled like INVALID: no refresh request, tokens removed, logout.
C8_TriageClasses ==
    \A c \in CallIds :
      LET call == calls[c] IN
      (/\ call.pc \notin {"idle", "await_orig", "threw"}
       /\ Url(call.ep) # RefreshUrl
       /\ Is401(call.origResp))
        => /\ call.triage = ExpectedClass(call.origResp)
           /\ call.triage \in {"INVALID", "UNKNOWN"}
                => /\ call.pc \in {"logout_import", "returned"}
                   /\ call.nRefresh = 0
                   /\ call.nRetry = 0
                   /\ access = NoToken
                   /\ refresh = NoToken
                   /\ call.logoutExpiry = FALSE
                   /\ call.pc = "returned" => ~auth.isAuthenticated /\ auth.user = NoUser

C8_Witness ==
    \E c \in CallIds :
      /\ calls[c].pc = "returned"
      /\ calls[c].origResp = Err(401, Body(StrMsg(M_InvalidExpired)))
      /\ Url(calls[c].ep) # RefreshUrl
      /\ calls[c].triage = "EXPIRED"
      /\ calls[c].nRefresh = 1

\* C9: when handle401Error calls attemptTokenRefresh while the stored refresh
\* token is absent or fails isTokenValid, the attempt reports failure in that
\* very step and no request is sent to the refresh endpoint.
C9_NoRefreshRequestWithoutValidToken ==
    [][\A c \in CallIds :
         (/\ OrigComesBack(c)
          /\ calls'[c].triage = "EXPIRED"
          /\ (refresh = NoToken \/ ~IsTokenValid(refresh, now)))
           => /\ calls'[c].pc = "refresh_returned"
              /\ calls'[c].rr.success = FALSE
              /\ calls'[c].nRefresh = 0
              /\ calls'[c].nOrig + calls'[c].nRetry = 1
              /\ calls'[c].sentRefresh = NoToken]_vars

C9_Witness ==
    \E c \in CallIds :
      /\ calls[c].pc = "refresh_returned"
      /\ calls[c].triage = "EXPIRED"
      /\ calls[c].nRefresh = 0
      /\ refresh = T1
      /\ now > MsPerSec
      /\ calls[c].rr.error = "Refresh token is invalid or expired"

\* C10: whenever attemptTokenRefresh reports failure (early exit, failed
\* request, or an answer that is no success envelope), the step in which it
\* does so leaves both stored tokens as they were.
C10_FailedRefreshLeavesStore ==
    [][\A c \in CallIds :
         (/\ calls[c].pc \in {"await_orig", "await_refresh"}
          /\ calls'[c].pc = "refresh_returned"
          /\ calls'[c].rr.success = FALSE)
           => /\ access' = access
              /\ refresh' = refresh]_vars

C10_Witness ==
    \E c \in CallIds :
      /\ calls[c].pc = "refresh_returned"
      /\ calls[c].rr.error = "Invalid refresh response"
      /\ calls[c].refreshResp = Ok(Env(201, TokenData(T2, T3)))
      /\ access = T1
      /\ refresh = T2

\* C11 as stated: attemptTokenRefresh reports success only for a well-formed
\* success envelope (statusCode 200 carrying a token pair); when it reports
\* success both tokens of the response are in the TokenStore and the access
\* token it returns is the stored access token.
C11_SuccessMeansTokensStored ==
    \A c \in CallIds :
      LET call == calls[c] IN
      (call.pc = "refresh_returned" /\ call.rr.success)
        => /\ SuccessEnvelope(call.refreshResp)
           /\ access = Field(call.refreshResp.body.data, "token")
           /\ refresh = Field(call.refreshResp.body.data, "refreshToken")
           /\ call.rr.newToken = access

\* C12: within one execute() call the retry is dispatched only by the step
\* that follows a refresh which came back as a success and whose tokens are
\* in the TokenStore; no retry exists while the refresh is in flight and none
\* without a refresh response.
C12_RetryOnlyAfterRefresh ==
    [][\A c \in CallIds :
         /\ calls[c].pc = "await_refresh" => calls[c].nRetry = 0
         /\ calls'[c].nRetry > calls[c].nRetry
              => /\ calls[c].pc = "refresh_returned"
                 /\ calls[c].nRefresh = 1
                 /\ IsRefreshSuccess(calls[c].refreshResp)
                 /\ calls[c].rr.success
                 /\ access = SetItem(Field(calls[c].refreshResp.body.data, "token"))
                 /\ refresh = SetItem(Field(calls[c].refreshResp.body.data, "refreshToken"))
                 /\ calls'[c].pc = "await_retry"
                 /\ calls'[c].nRefresh = 1]_vars

C12_Witness ==
    \E c \in CallIds :
      /\ calls[c].pc = "await_retry"
      /\ calls[c].nRefresh = 1
      /\ calls[c].nRetry = 1
      /\ calls[c].refreshResp = Ok(Env(200, TokenData(T3, T2)))
      /\ access = T3 /\ refresh = T2

-----------------------------------------------------------------------------
(* Properties of restoreUserSession and the initializer *)

\* the step in which restoreUserSession is entered
RestoreEntered == rs.pc \in {"idle", "checked"} /\ rs'.pc \notin {"idle", "checked"}

\* the first fetchUserProfile() of a restoration that found both tokens valid
FirstFetch == rs.fetches[1]

FirstFetchSettled == rs.plan = "profile" /\ Len(rs.fetches) >= 1

\* C13: restoreUserSession entered while the access token or the refresh
\* token is absent dispatches logout() and returns in the same step, without
\* a profile request, a call of attemptTokenRefresh or a refresh request.
C13_MissingTokenLogsOutOffline ==
    [][(RestoreEntered /\ (access = NoToken \/ refresh = NoToken))
         => /\ rs'.pc = "done"
            /\ auth' = [user |-> NoUser, isAuthenticated |-> FALSE,
                        loading |-> FALSE, error |-> NoError]
            /\ calls' = calls
            /\ rs'.nProfile = 0 /\ rs'.nAttempt = 0 /\ rs'.nRefresh = 0]_vars

C13_Witness ==
    /\ rs.pc = "done"
    /\ rs.path = "notokens"
    /\ rs.accessToken = NoToken
    /\ rs.refreshToken = T1
    /\ IsTokenValid(rs.refreshToken, now)
    /\ LoggedOutWith(NoError)

\* C14: a restoration that found both tokens valid and whose profile fetch
\* came back as a success envelope with a user record ends with that user in
\* AuthState, isAuthenticated true, loading false, error null, and with both
\* tokens still in the TokenStore.
C14_ValidTokensRestoreUser ==
    (rs.pc = "done" /\ FirstFetchSettled /\ ProfileAccepted(FirstFetch))
      => /\ auth = [user |-> FirstFetch.user, isAuthenticated |-> TRUE,
                    loading |-> FALSE, error |-> NoError]
         /\ Truthy(access)
         /\ Truthy(refresh)
         /\ rs.path = "profile1"

C14_Witness ==
    /\ rs.pc = "done"
    /\ FirstFetchSettled
    /\ FirstFetch.result = DataResult(Env(200, UserData("u2")))
    /\ auth.user = "u2"
    /\ rs.accessToken = T1 /\ access = T1
    /\ rs.refreshToken = T2 /\ refresh = T2

\* C15 as stated: once the profile fetch of a restoration that found both
\* tokens valid has failed, restoreUserSession goes straight to the cleanup:
\* it never calls attemptTokenRefresh and never fetches the profile again.
C15_FailedFetchGoesToFallback ==
    (FirstFetchSettled /\ ~ProfileAccepted(FirstFetch))
      => /\ rs.nAttempt = 0
         /\ rs.nProfile = 1
         /\ rs.pc = "done"
         /\ rs.path = "fallback"

\* the step in which restoreUserSession calls attemptTokenRefresh
RestoreAttemptsRefresh == rs'.nAttempt > rs.nAttempt

\* C16 as stated: restoreUserSession calls attemptTokenRefresh only for an
\* access token that can be decoded and is expired, the refresh token being
\* valid; an undecodable access token never leads to that call.
C16_RefreshOnlyForDecodableExpired ==
    [][RestoreAttemptsRefresh
         => /\ DecodeJWT(rs'.accessToken).ok
            /\ IsTokenExpired(rs'.accessToken, now)
            /\ IsTokenValid(rs'.refreshToken, now)]_vars

\* C16 amended: restoreUserSession calls attemptTokenRefresh only when
\* isTokenExpired holds of the access token it read (expired, or without a
\* decodable payload, or without exp) and isTokenValid of the refresh token
\* it read, both at that moment; every other case goes to the cleanup.
C16_RefreshOnlyWhenExpiredTest ==
    [][/\ RestoreAttemptsRefresh
            => /\ IsTokenExpired(rs'.accessToken, now)
               /\ IsTokenValid(rs'.refreshToken, now)
       /\ (rs'.pc = "done" /\ rs.pc # "done" /\ rs'.path = "fallback"
              /\ rs'.nAttempt = 0)
            => ~(IsTokenExpired(rs'.accessToken, now)
                   /\ IsTokenValid(rs'.refreshToken, now))]_vars

C16_Witness ==
    /\ rs.pc = "await_refresh"
    /\ rs.accessToken = TBad
    /\ rs.refreshToken = T2
    /\ rs.nAttempt = 1
    /\ rs.nRefresh = 1

RestoreRunning == rs.pc \in {"profile1", "await_refresh", "profile2"}

\* C18: when every dispatched request eventually comes back, a running
\* restoreUserSession eventually returns, and the initializer's
\* isRestoringSession flag is eventually false, whether the restoration
\* succeeded, failed or was skipped.
C18_RestoreTerminates ==
    /\ RestoreRunning ~> (rs.pc = "done")
    /\ restoring ~> ~restoring

C18_Witness ==
    /\ restoring
    /\ rs.via = "initializer"
    /\ rs.pc = "done"
    /\ rs.path = "fallback"
    /\ rs.nRefresh = 1
    /\ Len(rs.fetches) = 2

\* the step in which the initializer evaluates shouldRestoreSession()
ShouldRestoreEvaluated == rs.pc = "idle" /\ rs'.pc = "checked"

\* C19: shouldRestoreSession() is true exactly when both tokens are in the
\* TokenStore and AuthState.isAuthenticated is false, and evaluating it
\* changes neither the TokenStore nor AuthState.
C19_ShouldRestoreIffTokensAndLoggedOut ==
    [][ShouldRestoreEvaluated
         => /\ rs'.should = (access # NoToken /\ refresh # NoToken
                               /\ ~auth.isAuthenticated)
            /\ access' = access
            /\ refresh' = refresh
            /\ auth' = auth]_vars

C19_Witness ==
    /\ rs.pc = "checked"
    /\ ~rs.should
    /\ auth.isAuthenticated
    /\ access # NoToken
    /\ refresh # NoToken

\* C20 as stated: in every reachable AuthState isAuthenticated implies a
\* user record, and loading implies that error is null.
C20_AuthStateConsistent ==
    /\ auth.isAuthenticated => auth.user # NoUser
    /\ auth.loading => auth.error = NoError

-----------------------------------------------------------------------------
(* Properties of the reducers *)

\* C21: from any AuthState setUser(u) gives exactly {u, true, false, null}
\* and logout() exactly the defaults {null, false, false, null}.
C21_SetUserAndLogoutResults ==
    /\ probe.op = "setUser"
         => auth = [user |-> probe.arg, isAuthenticated |-> TRUE,
                    loading |-> FALSE, error |-> NoError]
    /\ probe.op = "logout"
         => auth = [user |-> NoUser, isAuthenticated |-> FALSE,
                    loading |-> FALSE, error |-> NoError]

C21_Witness ==
    /\ probe.op = "setUser"
    /\ probe.arg = "u2"
    /\ probe.pre = [user |-> "u1", isAuthenticated |-> FALSE,
                    loading |-> TRUE, error |-> LoginFailedMsg]
    /\ auth.user = "u2"

\* C22: authFailed(msg) changes only loading (to false) and error (to msg),
\* authLoading() only loading (to true) and error (to null); neither touches
\* user or isAuthenticated, and isAuthenticated goes from true to false by
\* logout() alone.
C22_FailAndLoadingFrame ==
    /\ probe.op = "authFailed"
         => auth = [user |-> probe.pre.user,
                    isAuthenticated |-> probe.pre.isAuthenticated,
                    loading |-> FALSE, error |-> probe.arg]
    /\ probe.op = "authLoading"
         => auth = [user |-> probe.pre.user,
                    isAuthenticated |-> probe.pre.isAuthenticated,
                    loading |-> TRUE, error |-> NoError]
    /\ (probe.op # "none" /\ probe.pre.isAuthenticated /\ ~auth.isAuthenticated)
         => probe.op = "logout"

C22_Witness ==
    /\ probe.op = "authFailed"
    /\ probe.arg = SessionExpiryMsg
    /\ probe.pre = [user |-> "u1", isAuthenticated |-> TRUE,
                    loading |-> TRUE, error |-> NoError]
    /\ auth.user = "u1"
    /\ auth.isAuthenticated

\* C23: a logout() dispatched right after a logout() leaves AuthState as the
\* first one left it.
C23_LogoutIdempotent ==
    [][(probe.op = "logout" /\ probe'.op = "logout") => auth' = auth]_vars

C23_Witness ==
    /\ probe.op = "logout"
    /\ probe.pre = [user |-> NoUser, isAuthenticated |-> FALSE,
                    loading |-> FALSE, error |-> NoError]
    /\ auth = probe.pre

\* the second segment is missing or does not decode to a claims object
MalformedMiddle(token) == Len(token) < 2 \/ token[2].k # "obj"

Returned ==
    /\ probe.op = "decodeJWT" => "threw" \notin DOMAIN probe.out
    /\ probe.op \in {"isTokenExpired", "isTokenValid"} => probe.out \in BOOLEAN

\* C25 as stated: the three functions never raise, and a string whose middle
\* segment is missing or malformed gives decode = null, isExpired = true and
\* isValid = false.
C25_MalformedMiddleGivesNull ==
    /\ probe.op \in {"decodeJWT", "isTokenExpired", "isTokenValid"} => Returned
    /\ (probe.op = "decodeJWT" /\ MalformedMiddle(probe.token)) =>
           probe.out = NullPayload
    /\ (probe.op = "isTokenExpired" /\ MalformedMiddle(probe.token)) =>
           probe.out = TRUE
    /\ (probe.op = "isTokenValid" /\ MalformedMiddle(probe.token)) =>
           probe.out = FALSE

\* C25 amended: the three functions never raise; a string whose middle segment
\* is missing or malformed gives isExpired = true and isValid = false, and
\* decode = null unless the segment is well-formed JSON of another kind than
\* an object, which decodeJWT returns as it is.
C25_MalformedMiddleFailsClosed ==
    /\ probe.op \in {"decodeJWT", "isTokenExpired", "isTokenValid"} => Returned
    /\ (probe.op = "decodeJWT" /\ MalformedMiddle(probe.token)) =>
           IF Len(probe.token) >= 2 /\ probe.token[2].k = "scalar"
           THEN probe.out = ScalarPayload
           ELSE probe.out = NullPayload
    /\ (probe.op = "isTokenExpired" /\ MalformedMiddle(probe.token)) =>
           probe.out = TRUE
    /\ (probe.op = "isTokenValid" /\ MalformedMiddle(probe.token)) =>
           probe.out = FALSE

C25_Witness ==
    /\ probe.op = "decodeJWT"
    /\ probe.token = TBad
    /\ probe.out = NullPayload

\* C26 as stated, for every clock value after the epoch: isTokenExpired is
\* true when the string yields no claims or the claims have no numeric exp,
\* and otherwise true exactly when exp * 1000 is below the clock.
C26_ExpiredIffNoNumericExpOrPast ==
    (probe.op = "isTokenExpired" /\ probe.time > 0) =>
        LET payload == DecodeJWT(probe.token)
        IN  probe.out = IF ~payload.ok \/ payload.exp \in {NoExp, StrExp}
                        THEN TRUE
                        ELSE payload.exp * MsPerSec < probe.time

\* the claims carry a number as exp and it lies before the clock
ExpInPast(token, time) ==
    LET payload == DecodeJWT(token)
    IN  /\ payload.ok
        /\ payload.exp \notin {NoExp, StrExp}
        /\ payload.exp * MsPerSec < time

\* C27: a string reported valid has exactly three segments, decodes to
\* something other than null and is not expired; a string whose exp lies in
\* the past is never reported valid.
C27_ValidImpliesWellFormedAndFresh ==
    probe.op = "isTokenValid" =>
        /\ probe.out = TRUE =>
               /\ Len(probe.token) = 3
               /\ DecodeJWT(probe.token) # NullPayload
               /\ ~IsTokenExpired(probe.token, probe.time)
        /\ ExpInPast(probe.token, probe.time) => probe.out = FALSE

C27_Witness ==
    /\ probe.op = "isTokenValid"
    /\ probe.token = T2
    /\ probe.time = 2 * MsPerSec
    /\ probe.out = TRUE

\* C28: getAccessToken returns the string of the last setAccessToken, or null
\* when the last write to that key was removeAccessToken; the same for the
\* refresh token; so after any sequence of set and remove calls the last
\* write to a key is what its get returns.
C28_StoreRoundTrip ==
    /\ probe.op = "getAccessToken" => probe.out = probe.wroteAccess
    /\ probe.op = "getRefreshToken" => probe.out = probe.wroteRefresh
    /\ probe.op \in {"setAccessToken", "removeAccessToken"} => access = probe.wroteAccess
    /\ probe.op \in {"setRefreshToken", "removeRefreshToken"} => refresh = probe.wroteRefresh

\* an empty string was written to the access key and read back
C28_Witness ==
    /\ probe.op = "getAccessToken"
    /\ probe.wroteAccess = EmptyTok
    /\ probe.out = EmptyTok
    /\ probe.wroteRefresh = NoToken

\* call c is triaged EXPIRED in this step
TriagedExpired(c) ==
    calls[c].pc = "await_orig" /\ calls'[c].triage = "EXPIRED"

\* C29: a call whose 401 is classified EXPIRED runs its own attemptTokenRefresh
\* whatever the other call is doing: with a valid refresh token in the store
\* it posts its own refresh request even while the other call's refresh is in
\* flight or has come back, otherwise it gets its own early failure; no call
\* goes on with a refresh result it did not ask for itself.
C29_EachCallRefreshesItself ==
    [][\A c \in CallIds :
          /\ TriagedExpired(c) =>
                IF Truthy(refresh) /\ IsTokenValid(refresh, now)
                THEN /\ calls'[c].pc = "await_refresh"
                     /\ calls'[c].nRefresh = 1
                     /\ calls'[c].sentRefresh = refresh
                ELSE /\ calls'[c].pc = "refresh_returned"
                     /\ calls'[c].nRefresh = 0
                     /\ calls'[c].rr.error \in {"No refresh token available",
                                                "Refresh token is invalid or expired"}
          /\ calls'[c].pc = "await_retry" => calls'[c].nRefresh = 1]_vars

\* two refresh requests are in flight at once, one of each call
C29_Witness ==
    \A c \in CallIds :
        /\ calls[c].triage = "EXPIRED"
        /\ calls[c].pc = "await_refresh"
        /\ calls[c].nRefresh = 1

\* clearAuthAndLogout of call c completes in this step
ForcedLogoutDone(c) ==
    calls[c].pc = "logout_import" /\ calls'[c].pc = "returned"

\* the login call c is settled in this step and leaves an error
LoginFailureSettled(c) ==
    /\ calls[c].ep = "login"
    /\ calls[c].pc \in {"returned", "threw"}
    /\ calls'[c].pc = "idle"
    /\ auth'.error # NoError

\* C30: the error left by the forced logout after a failed refresh passes the
\* marker test of the error display; the errors left by the forced logouts of
\* the INVALID and UNKNOWN branches and by a failed login do not.
C30_OnlyFailedRefreshShowsExpiry ==
    [][\A c \in CallIds :
          /\ (ForcedLogoutDone(c) /\ calls[c].triage = "EXPIRED") =>
                 IsSessionExpiry(auth'.error)
          /\ (ForcedLogoutDone(c) /\ calls[c].triage \in {"INVALID", "UNKNOWN"}) =>
                 (auth'.error # NoError /\ ~IsSessionExpiry(auth'.error))
          /\ LoginFailureSettled(c) => ~IsSessionExpiry(auth'.error)]_vars

\* a call was logged out after its refresh failed and the display shows the
\* session-expiry styling
C30_Witness ==
    /\ \E c \in CallIds :
         /\ calls[c].pc = "returned"
         /\ calls[c].triage = "EXPIRED"
         /\ calls[c].logoutExpiry
         /\ ~calls[c].rr.success
    /\ auth.error = SessionExpiryMsg
    /\ IsSessionExpiry(auth.error)

\* C31: the request's Authorization header is Bearer <stored token> whenever a
\* token is stored, whatever the caller supplied; with no token stored the
\* header is the caller's or absent; the Content-Type is the caller's when the
\* caller supplied one and otherwise the one chosen from method and body.
C31_AuthorizationOverridesCaller ==
    probe.op = "requestHeaders" =>
        /\ Truthy(probe.token) => probe.out.Authorization = Bearer(probe.token)
        /\ ~Truthy(probe.token) => probe.out.Authorization = probe.custom.Authorization
        /\ probe.out.ContentType =
               IF probe.custom.ContentType # Absent
               THEN probe.custom.ContentType
               ELSE getContentTypeHeaders(probe.method, probe.data).ContentType

\* a caller sent its own Authorization and Content-Type with a body while a
\* token was stored
C31_Witness ==
    /\ probe.op = "requestHeaders"
    /\ probe.token = T1
    /\ probe.custom = CallerBoth
    /\ probe.data = "object"
    /\ probe.method = "POST"
    /\ probe.out.Authorization = Bearer(T1)
    /\ probe.out.ContentType = [v |-> "caller-supplied"]

\* C32 as stated: when two calls were both answered with an EXPIRED 401, the
\* refresh of one succeeded and the refresh of the other failed, then once
\* both have returned the TokenStore holds the tokens of the successful
\* refresh and AuthState is still authenticated.
C32_SessionSurvivesOneFailedRefresh ==
    \A c, d \in CallIds :
      (/\ c # d
       /\ calls[c].pc = "returned" /\ calls[d].pc = "returned"
       /\ Got401(calls[c], "EXPIRED") /\ Got401(calls[d], "EXPIRED")
       /\ SuccessEnvelope(calls[c].refreshResp)
       /\ RefreshAttemptFailed(calls[d]))
        => /\ access = calls[c].refreshResp.body.data.token
           /\ refresh = calls[c].refreshResp.body.data.refreshToken
           /\ auth.isAuthenticated

\* nothing is in flight: no request, no continuation, no restoration
Quiescent ==
    /\ \A c \in CallIds : calls[c].pc = "idle"
    /\ rs.pc = "idle"

\* C33 as stated: once every operation in flight has completed, an
\* authenticated AuthState goes with both tokens in the TokenStore.
C33_AuthenticatedImpliesTokens ==
    (Quiescent /\ auth.isAuthenticated) => (Truthy(access) /\ Truthy(refresh))

\* C34 as stated: a call answered with an EXPIRED 401 returns either after a
\* retry that carried a new access token, or with both tokens removed and
\* AuthState logged out, and never with neither or both.
C34_RetryOrLogout ==
    \A c \in CallIds :
      LET call    == calls[c]
          retried == call.nRetry = 1 /\ call.retryHeaders.Authorization # Absent
          forced  == /\ call.logoutExpiry
                     /\ access = NoToken /\ refresh = NoToken
                     /\ ~auth.isAuthenticated
      IN  (call.pc = "returned" /\ Got401(call, "EXPIRED")) => (retried # forced)

\* C35 as stated: no exception leaves execute(); a call that is over has
\* returned {data} or {error: {status, data}}.
C35_ExecuteNeverThrows ==
    \A c \in CallIds :
      /\ calls[c].pc # "threw"
      /\ calls[c].pc = "returned" => calls[c].result.kind \in {"data", "error"}

\* C36 as stated: when restoreUserSession has returned and AuthState is logged
\* out, the TokenStore holds neither an access token nor a refresh token.
C36_LoggedOutRestoreLeavesNoToken ==
    (rs.pc = "done" /\ ~auth.isAuthenticated) =>
        (access = NoToken /\ refresh = NoToken)

\* the gateway logged out with a message while serving restore's profile fetch
FetchForcedLogout ==
    /\ rs.pc \in {"profile1", "profile2"}
    /\ calls[RestoreSlot].pc = "returned"
    /\ calls[RestoreSlot].logoutMsg # "none"

\* C37 as stated: when restoreUserSession ends after a profile fetch during
\* which the gateway performed a forced logout, the gateway's message is
\* still AuthState.error.
C37_GatewayErrorSurvivesRestore ==
    [][(FetchForcedLogout /\ rs'.pc = "done") =>
          auth'.error = ClearAuthMessage(calls[RestoreSlot].logoutMsg,
                                         calls[RestoreSlot].logoutExpiry)]_vars

\* the login call has failed: an exception, an error result, or a forced
\* logout under way that ends in the original error
LoginHasFailed(call) ==
    /\ call.ep = "login"
    /\ \/ call.pc \in {"threw", "logout_import"}
       \/ call.pc = "returned" /\ call.result.kind = "error"

\* C38 as stated: no step that makes a login fail, and no step of a failed
\* login, changes the TokenStore or AuthState.user / isAuthenticated; when the
\* failed login is settled AuthState.error is the login-failed message; a
\* successful login stores both tokens of the response and sets the user.
C38_FailedLoginChangesNothing ==
    [][\A c \in CallIds :
          /\ (calls[c].ep = "login" /\ (LoginHasFailed(calls[c]) \/ LoginHasFailed(calls'[c])))
               => /\ access' = access
                  /\ refresh' = refresh
                  /\ auth'.user = auth.user
                  /\ auth'.isAuthenticated = auth.isAuthenticated
                  /\ calls'[c].pc = "idle" => auth'.error = LoginFailedMsg
          /\ (calls[c].ep = "login" /\ calls[c].pc = "returned" /\ calls'[c].pc = "idle"
                /\ calls[c].result.kind = "data" /\ calls[c].result.data.data.t = "login")
               => /\ access' = SetItem(calls[c].result.data.data.token)
                  /\ refresh' = SetItem(calls[c].result.data.data.refreshToken)
                  /\ auth'.isAuthenticated]_vars

\* the refreshToken endpoint's call c is settled in this step as a failure
RefreshEndpointFailed(c) ==
    /\ calls[c].ep = "refreshToken"
    /\ calls[c].pc \in {"returned", "threw"}
    /\ calls'[c].pc = "idle"
    /\ ~(calls[c].pc = "returned" /\ calls[c].result.kind = "data"
           /\ calls[c].result.data.data # NoData)

\* C39 as stated: the step that logs AuthState out because a refresh failed,
\* in the gateway or in the refreshToken endpoint's failure handler, leaves
\* no token in the TokenStore.
C39_RefreshFailureRemovesTokens ==
    [][\A c \in CallIds :
          /\ (ForcedLogoutDone(c) /\ calls[c].logoutExpiry) =>
                 (access' = NoToken /\ refresh' = NoToken /\ ~auth'.isAuthenticated)
          /\ RefreshEndpointFailed(c) =>
                 (access' = NoToken /\ refresh' = NoToken /\ ~auth'.isAuthenticated)]_vars

\* C40: setAccessToken, getAccessToken and removeAccessToken leave the stored
\* refresh token as it is, setRefreshToken, getRefreshToken and
\* removeRefreshToken leave the stored access token as it is, and none of the
\* six changes AuthState.
C40_StoreKeysIndependent ==
    [][/\ probe'.op \in {"setAccessToken", "getAccessToken", "removeAccessToken"}
            => refresh' = refresh
       /\ probe'.op \in {"setRefreshToken", "getRefreshToken", "removeRefreshToken"}
            => access' = access
       /\ auth' = auth]_vars

\* the access token was removed next to a stored refresh token
C40_Witness ==
    /\ probe.op = "removeAccessToken"
    /\ access = NoToken
    /\ refresh = T1
    /\ probe.wroteRefresh = T1

====
